---- MODULE Spec2Model ----
(***************************************************************************)
(* Hybrid lead scoring (leads/utils.py, leads/views.py, leads/models.py). *)
(*                                                                         *)
(* Text is a sequence of one-character strings wherever the code looks    *)
(* inside it (lower(), strip(), "in", split('|')); a literal the code     *)
(* only emits is a sequence holding that literal as one piece, so that    *)
(* f-strings and ', '.join are concatenations.  A nullable column is a    *)
(* sequence of length 0 (NULL) or 1 (the value).                           *)
(***************************************************************************)
EXTENDS Integers, Sequences, FiniteSets, TLC

\* ------------------------------------------------------------------ text

None == <<>>
Some(x) == <<x>>
IsNone(o) == o = <<>>
IsSome(o) == o # <<>>
Val(o) == o[1]

Range(s) == {s[i] : i \in 1..Len(s)}

Min(a, b) == IF a <= b THEN a ELSE b

Upper == <<"A", "B", "C", "D", "E", "F", "G", "H", "I", "J", "K", "L", "M",
           "N", "O", "P", "Q", "R", "S", "T", "U", "V", "W", "X", "Y", "Z">>
LowerCase == <<"a", "b", "c", "d", "e", "f", "g", "h", "i", "j", "k", "l", "m",
               "n", "o", "p", "q", "r", "s", "t", "u", "v", "w", "x", "y", "z">>

\* str.lower() on one character
LowerChar(c) ==
    IF \E i \in 1..Len(Upper) : Upper[i] = c
    THEN LowerCase[CHOOSE i \in 1..Len(Upper) : Upper[i] = c]
    ELSE c

\* str.lower()
Lower(s) == [i \in 1..Len(s) |-> LowerChar(s[i])]

\* a containment test in which the empty string is in no string
Contains_NonEmpty(sub, s) ==
    /\ sub # <<>>
    /\ \E i \in 0..(Len(s) - Len(sub)) : SubSeq(s, i + 1, i + Len(sub)) = sub

\* Python's "sub in s" on strings; the empty string is in every string
Contains(sub, s) ==
    \E i \in 0..(Len(s) - Len(sub)) : SubSeq(s, i + 1, i + Len(sub)) = sub

IsSpace(c) == c \in {" ", "\t", "\n", "\r"}

\* str.strip()
Strip(s) ==
    IF \A i \in 1..Len(s) : IsSpace(s[i])
    THEN <<>>
    ELSE LET first == CHOOSE i \in 1..Len(s) :
                          /\ ~IsSpace(s[i])
                          /\ \A j \in 1..(i - 1) : IsSpace(s[j])
             last  == CHOOSE i \in 1..Len(s) :
                          /\ ~IsSpace(s[i])
                          /\ \A j \in (i + 1)..Len(s) : IsSpace(s[j])
         IN  SubSeq(s, first, last)

\* sep.join(parts)
RECURSIVE Join(_, _)
Join(sep, parts) ==
    IF parts = <<>> THEN <<>>
    ELSE IF Len(parts) = 1 THEN parts[1]
    ELSE parts[1] \o sep \o Join(sep, Tail(parts))

\* a JSON value held in a JSONField list: a string, or something that is not one
JStr(s) == [t |-> "string", v |-> s]
JNum == [t |-> "number", v |-> <<"7">>]

\* dict.get(key, default)
Get(d, key, default) == IF key \in DOMAIN d THEN d[key] ELSE default

\* ------------------------------------------------------- rule layer

decision_makers ==
    << <<"c", "e", "o">>, <<"c", "t", "o">>, <<"c", "f", "o">>, <<"v", "p">>,
       <<"h", "e", "a", "d">>, <<"d", "i", "r", "e", "c", "t", "o", "r">>,
       <<"f", "o", "u", "n", "d", "e", "r">>, <<"o", "w", "n", "e", "r">>,
       <<"p", "r", "e", "s", "i", "d", "e", "n", "t">> >>

influencers ==
    << <<"m", "a", "n", "a", "g", "e", "r">>, <<"l", "e", "a", "d">>,
       <<"a", "r", "c", "h", "i", "t", "e", "c", "t">>,
       <<"s", "e", "n", "i", "o", "r">>,
       <<"p", "r", "i", "n", "c", "i", "p", "a", "l">> >>

required_fields == <<"name", "role", "company", "industry", "location", "linkedin_bio">>

\* any(kw in role for kw in keywords)
AnyKeyword(keywords, role) == \E i \in 1..Len(keywords) : Contains(keywords[i], role)

\* the two tiers as two independent if statements: both awards can be given
RoleRelevance_Additive(role) ==
    [points  |-> (IF AnyKeyword(decision_makers, role) THEN 20 ELSE 0)
                   + (IF AnyKeyword(influencers, role) THEN 10 ELSE 0),
     reasons |-> (IF AnyKeyword(decision_makers, role)
                  THEN << <<"Decision maker role (+20)">> >> ELSE <<>>)
                 \o (IF AnyKeyword(influencers, role)
                     THEN << <<"Influencer role (+10)">> >> ELSE <<>>)]

\* Criterion 1: [points, reasons]
RoleRelevance(role) ==
    IF AnyKeyword(decision_makers, role)
    THEN [points |-> 20, reasons |-> << <<"Decision maker role (+20)">> >>]
    ELSE IF AnyKeyword(influencers, role)
    THEN [points |-> 10, reasons |-> << <<"Influencer role (+10)">> >>]
    ELSE [points |-> 0, reasons |-> <<>>]

\* any(industry == use_case.lower() for use_case in ideal_use_cases), evaluated
\* left to right: "True" at the first equal element, "raise" at the first element
\* without lower() met before that, "False" at the end of the list
RECURSIVE AnyExact(_, _)
AnyExact(industry, ucs) ==
    IF ucs = <<>> THEN "False"
    ELSE IF Head(ucs).t # "string" THEN "raise"
    ELSE IF industry = Lower(Head(ucs).v) THEN "True"
    ELSE AnyExact(industry, Tail(ucs))

\* any(icp.lower() in industry or industry in icp.lower() for icp in ideal_use_cases)
RECURSIVE AnyAdjacent(_, _)
AnyAdjacent(industry, ucs) ==
    IF ucs = <<>> THEN "False"
    ELSE IF Head(ucs).t # "string" THEN "raise"
    ELSE IF \/ Contains(Lower(Head(ucs).v), industry)
            \/ Contains(industry, Lower(Head(ucs).v)) THEN "True"
    ELSE AnyAdjacent(industry, Tail(ucs))

\* the two tests in the other order: adjacency is tried before equality
IndustryMatch_AdjacentFirst(industry, ucs) ==
    LET adj == AnyAdjacent(industry, ucs) IN
    IF adj = "raise"
    THEN [raised |-> "AttributeError", points |-> 0, reasons |-> <<>>]
    ELSE IF adj = "True"
    THEN [raised |-> "none", points |-> 10,
          reasons |-> << <<"Adjacent industry (+10)">> >>]
    ELSE LET exact == AnyExact(industry, ucs) IN
         IF exact = "raise"
         THEN [raised |-> "AttributeError", points |-> 0, reasons |-> <<>>]
         ELSE IF exact = "True"
         THEN [raised |-> "none", points |-> 20,
               reasons |-> << <<"Exact ICP match (+20)">> >>]
         ELSE [raised |-> "none", points |-> 0, reasons |-> <<>>]

\* Criterion 2: [raised, points, reasons]
IndustryMatch(industry, ucs) ==
    LET exact == AnyExact(industry, ucs) IN
    IF exact = "raise"
    THEN [raised |-> "AttributeError", points |-> 0, reasons |-> <<>>]
    ELSE IF exact = "True"
    THEN [raised |-> "none", points |-> 20, reasons |-> << <<"Exact ICP match (+20)">> >>]
    ELSE LET adj == AnyAdjacent(industry, ucs) IN
         IF adj = "raise"
         THEN [raised |-> "AttributeError", points |-> 0, reasons |-> <<>>]
         ELSE IF adj = "True"
         THEN [raised |-> "none", points |-> 10,
               reasons |-> << <<"Adjacent industry (+10)">> >>]
         ELSE [raised |-> "none", points |-> 0, reasons |-> <<>>]

\* the test without .strip(): a field of blanks counts as filled
FieldPresent_NoStrip(lead, field) ==
    /\ field \in DOMAIN lead
    /\ lead[field] # <<>>

\* lead.get(field) and str(lead.get(field)).strip()
FieldPresent(lead, field) ==
    /\ field \in DOMAIN lead
    /\ lead[field] # <<>>
    /\ Strip(lead[field]) # <<>>

\* Criterion 3: [points, reasons]
DataCompleteness(lead) ==
    IF \A i \in 1..Len(required_fields) : FieldPresent(lead, required_fields[i])
    THEN [points |-> 10, reasons |-> << <<"Complete profile (+10)">> >>]
    ELSE [points |-> 0, reasons |-> <<>>]

\* the function without "score += 10" in criterion 3
calculate_rule_score_NoCompletenessPoints(lead, offer) ==
    LET role     == Lower(Get(lead, "role", <<>>))
        c1       == RoleRelevance(role)
        industry == Lower(Get(lead, "industry", <<>>))
        c2       == IndustryMatch(industry, Get(offer, "ideal_use_cases", <<>>))
        c3       == DataCompleteness(lead)
    IN  IF c2.raised # "none"
        THEN [raised |-> c2.raised, score |-> 0, reasons |-> <<>>]
        ELSE [raised  |-> "none",
              score   |-> c1.points + c2.points,
              reasons |-> c1.reasons \o c2.reasons \o c3.reasons]

\* calculate_rule_score(lead, offer): [raised, score, reasons]; role and
\* industry are the two locals the function lowers once and then tests
calculate_rule_score(lead, offer) ==
    CHOOSE ret \in
        { LET c1 == RoleRelevance(role)
              c2 == IndustryMatch(industry, Get(offer, "ideal_use_cases", <<>>))
              c3 == DataCompleteness(lead)
          IN  IF c2.raised # "none"
              THEN [raised |-> c2.raised, score |-> 0, reasons |-> <<>>]
              ELSE [raised  |-> "none",
                    score   |-> c1.points + c2.points + c3.points,
                    reasons |-> c1.reasons \o c2.reasons \o c3.reasons] :
          role \in {Lower(Get(lead, "role", <<>>))},
          industry \in {Lower(Get(lead, "industry", <<>>))} } : TRUE

\* ------------------------------------------------------- AI layer

High == <<"H", "i", "g", "h">>
Medium == <<"M", "e", "d", "i", "u", "m">>
Low == <<"L", "o", "w">>

\* what the external chat-completion call can do: return a message content, or
\* raise openai.RateLimitError, or raise another error (connection, timeout, ...)
Responded(content) == [kind |-> "response", content |-> content, message |-> <<>>]
RateLimited == [kind |-> "RateLimitError", content |-> <<>>,
                message |-> <<"Error code: 429">>]
ConnectionFailed == [kind |-> "APIConnectionError", content |-> <<>>,
                     message |-> <<"Connection error.">>]

\* no external call was made
NotCalled == [kind |-> "not called", content |-> <<>>, message |-> <<>>]

\* building the messages raised before the external call
PromptFailed == [kind |-> "TypeError", content |-> <<>>,
                 message |-> <<"sequence item 0: expected str instance, int found">>]

\* intent_map.get(intent, 0): no points for a label that is not in the map
intent_map_DefaultZero(intent) ==
    IF intent = High THEN 50
    ELSE IF intent = Medium THEN 30
    ELSE IF intent = Low THEN 10
    ELSE 0

\* intent_map.get(intent, 10)
intent_map(intent) ==
    IF intent = High THEN 50
    ELSE IF intent = Medium THEN 30
    ELSE IF intent = Low THEN 10
    ELSE 10

\* the split at the last '|' (rsplit) in place of the first
SplitFirst_Last(result) ==
    LET p == CHOOSE i \in 1..Len(result) :
                 /\ result[i] = "|"
                 /\ \A j \in (i + 1)..Len(result) : result[j] # "|"
    IN  <<SubSeq(result, 1, p - 1), SubSeq(result, p + 1, Len(result))>>

\* result.split('|', 1), for a result that contains '|'
SplitFirst(result) ==
    LET p == CHOOSE i \in 1..Len(result) :
                 /\ result[i] = "|"
                 /\ \A j \in 1..(i - 1) : result[j] # "|"
    IN  <<SubSeq(result, 1, p - 1), SubSeq(result, p + 1, Len(result))>>

\* ', '.join(xs) raises TypeError on an element that is not a string
AllStrings(xs) == \A i \in 1..Len(xs) : xs[i].t = "string"

\* the f-string of the user message can be built, so the external call is made
PromptBuilds(offer) == AllStrings(offer.value_props) /\ AllStrings(offer.ideal_use_cases)

\* the try block without its check for a missing separator: the unpacking of
\* the split raises ValueError
AiTry_NoFormatCheck(lead, offer, outcome) ==
    IF ~PromptBuilds(offer)
    THEN [raised |-> PromptFailed.kind, message |-> PromptFailed.message,
          value |-> <<>>]
    ELSE IF outcome.kind # "response"
    THEN [raised |-> outcome.kind, message |-> outcome.message, value |-> <<>>]
    ELSE LET result == Strip(outcome.content) IN
         IF ~Contains(<<"|">>, result)
         THEN [raised |-> "ValueError",
               message |-> <<"not enough values to unpack (expected 2, got 1)">>,
               value |-> <<>>]
         ELSE LET parts  == SplitFirst(result)
                  intent == Strip(parts[1])
              IN  [raised |-> "none", message |-> <<>>,
                   value |-> <<intent_map(intent), intent, Strip(parts[2])>>]

\* what the try block of _get_ai_intent_score does: [raised, message, value]
AiTry(lead, offer, outcome) ==
    IF ~PromptBuilds(offer)
    THEN [raised |-> PromptFailed.kind, message |-> PromptFailed.message,
          value |-> <<>>]
    ELSE IF outcome.kind # "response"
    THEN [raised |-> outcome.kind, message |-> outcome.message, value |-> <<>>]
    ELSE LET result == Strip(outcome.content) IN
         IF ~Contains(<<"|">>, result)
         THEN [raised |-> "none", message |-> <<>>,
               value |-> <<10, Low, <<"AI response format error">> >>]
         ELSE LET parts  == SplitFirst(result)
                  intent == Strip(parts[1])
              IN  [raised |-> "none", message |-> <<>>,
                   value |-> <<intent_map(intent), intent, Strip(parts[2])>>]

\* the handler written as "except RateLimitError": it lets the others through
CaughtByExceptException_QuotaOnly(exc) == exc = "RateLimitError"

\* the exception classes "except Exception" of _get_ai_intent_score catches: all
\* of those the try block can raise (RateLimitError is a subclass of Exception)
CaughtByExceptException(exc) == exc # "none"

\* _get_ai_intent_score(lead, offer) when the external call does `outcome`:
\* [raised, message, value], value = <<ai_score, intent, reasoning>>
_get_ai_intent_score(lead, offer, outcome) ==
    LET t == AiTry(lead, offer, outcome) IN
    IF CaughtByExceptException(t.raised)
    THEN [raised |-> "none", message |-> <<>>,
          value |-> <<10, Low, <<"AI scoring error: ">> \o t.message>>]
    ELSE t

\* ------------------------------------------------------- combination

\* the thresholds with > in place of >=
FinalIntent_Exclusive(final_score) ==
    IF final_score > 70 THEN High
    ELSE IF final_score > 40 THEN Medium
    ELSE Low

\* High / Medium / Low by the 70 / 40 thresholds
FinalIntent(final_score) ==
    IF final_score >= 70 THEN High
    ELSE IF final_score >= 40 THEN Medium
    ELSE Low

\* the normal path computing the rule-only formula of the fallback
CombineScores_RuleOnly(rule_score, ai_score) == Min(rule_score * 2, 100)

\* final_score = min(rule_score + ai_score, 100)
CombineScores(rule_score, ai_score) == Min(rule_score + ai_score, 100)

\* f"[Rule: {', '.join(rule_reasons)}] [AI: {ai_reasoning}]"
CombinedReasoning(rule_reasons, ai_reasoning) ==
    <<"[Rule: ">> \o Join(<<", ">>, rule_reasons) \o <<"] [AI: ">>
        \o ai_reasoning \o <<"]">>

\* min(rule_score * 2, 100), the rule-only score of the RateLimitError handler
FallbackScore(rule_score) == Min(rule_score * 2, 100)

\* f"[Rule-based only - AI rate limited] {', '.join(rule_reasons)}"
FallbackReasoning(rule_reasons) ==
    <<"[Rule-based only - AI rate limited] ">> \o Join(<<", ">>, rule_reasons)

\* ------------------------------------------------------- bounds and inputs

MaxLeads == 2
MaxRows == 2
MaxOffers == 1
NumRuns == 2

Runs == 1..NumRuns

Ann == <<"A", "n", "n">>
Bob == <<"B", "o", "b">>
Acme == <<"A", "c", "m", "e">>
NY == <<"N", "Y">>
SaaS == <<"S", "a", "a", "S">>

\* one CSV line with the columns name,role,company,industry,location,linkedin_bio
CsvRow(name, role, company, industry, location, linkedin_bio) ==
    [name |-> name, role |-> role, company |-> company, industry |-> industry,
     location |-> location, linkedin_bio |-> linkedin_bio]

\* the CSV lines uploads are made of: a decision maker of the target industry,
\* the same person (company, name) again with another role, industry and an
\* empty bio, a second person of another industry, and that person again with
\* an empty bio (no rule points at all)
CsvRows ==
    { CsvRow(Ann, <<"C", "E", "O">>, Acme, SaaS, NY, <<"b", "i", "o">>),
      CsvRow(Ann, <<"L", "e", "a", "d", " ", "D", "e", "v">>, Acme,
             <<"S", "a", "a", "S", " ", "S", "t", "a", "r", "t", "u", "p">>, NY, <<>>),
      CsvRow(Bob, <<"A", "n", "a", "l", "y", "s", "t">>, Acme,
             <<"H", "e", "a", "l", "t", "h">>, NY, <<"b", "i", "o">>),
      CsvRow(Bob, <<"A", "n", "a", "l", "y", "s", "t">>, Acme,
             <<"H", "e", "a", "l", "t", "h">>, NY, <<>>) }

\* the CSV files: 1..MaxRows lines
CsvFiles == UNION {[1..n -> CsvRows] : n \in 1..MaxRows}

\* the offers POSTed to /api/offer/: a well-formed one, one whose
\* ideal_use_cases JSON list holds a number after its first string, and one
\* whose value_props JSON list holds a number
OfferInputs ==
    { [name |-> <<"P">>, value_props |-> <<JStr(<<"f", "a", "s", "t">>)>>,
       ideal_use_cases |-> <<JStr(SaaS)>>],
      [name |-> <<"Q">>, value_props |-> <<JStr(<<"f", "a", "s", "t">>)>>,
       ideal_use_cases |-> <<JStr(SaaS), JNum>>],
      [name |-> <<"R">>, value_props |-> <<JNum>>,
       ideal_use_cases |-> <<JStr(SaaS)>>] }

\* what the external classifier does on one call
Outcomes ==
    { Responded(<<"H", "i", "g", "h", "|", "f", "i", "t">>),
      Responded(<<"M", "e", "d", "i", "u", "m", "|", "o", "k">>),
      Responded(<<" ", "M", "a", "y", "b", "e", " ", "|", " ", "x", "|", "y">>),
      Responded(<<"n", "o", " ", "b", "a", "r">>),
      RateLimited,
      ConnectionFailed }

\* ------------------------------------------------------- state

VARIABLES
    offers,     \* the Offer table, in primary-key order
    leads,      \* the Lead table; a row's id is its index (ids grow with created_at)
    api_key,    \* whether settings.OPENAI_API_KEY is set for this process
    pc,         \* per scoring request: "idle", "scoring" (in the loop) or "done"
    run,        \* per scoring request: the locals of LeadViewSet.score, kept after
                \* its response until the next request
    listing,    \* the body of the GET results response, while it is the last response
    csv,        \* the rows of the GET export_csv response, while it is the last response
    call        \* a direct call of calculate_rule_score or _get_ai_intent_score (as
                \* the unit tests make them): its arguments and, once it returned,
                \* its result; None while the program serves requests

vars == <<offers, leads, api_key, pc, run, listing, csv, call>>

\* Lead.objects.create(**row): intent, score and reasoning are NULL
NewLead(row) ==
    [name |-> row.name, role |-> row.role, company |-> row.company,
     industry |-> row.industry, location |-> row.location,
     linkedin_bio |-> row.linkedin_bio,
     intent |-> None, score |-> None, reasoning |-> None]

Ids(rows) == 1..Len(rows)

\* the locals of one loop iteration before they are assigned
NoLocals ==
    [rule_score |-> 0, rule_reasons |-> <<>>, ai_score |-> 0, ai_intent |-> <<>>,
     ai_reasoning |-> <<>>, final_score |-> 0, final_intent |-> <<>>,
     reasoning |-> <<>>]

\* a scoring request that has not run
NoRun ==
    [offer      |-> None,     \* offer = Offer.objects.first()
     before     |-> <<>>,     \* the Lead table when the request started
     offers_before |-> <<>>,  \* the Offer table when the request started
     prev       |-> None,     \* what the scoring request before this one did, if
                              \* no other request came in between: [persisted, skipped]
     queryset   |-> <<>>,     \* the fetched rows of `leads`, by id; <<>> where not fetched
     todo       |-> {},       \* ids the for loop has not reached yet
     cur        |-> 0,        \* id of the lead of the current iteration, 0 outside one
     stage      |-> <<>>,     \* per id: how far the loop got with that lead
     loc        |-> NoLocals,
     results    |-> <<>>,     \* the results list
     persisted  |-> {},       \* ids whose lead.save() succeeded in this request
     save_failed |-> {},      \* ids whose lead.save() raised in this request
     rule_calls |-> 0,        \* calls of calculate_rule_score
     ai_calls   |-> 0,        \* calls of the external classifier
     ai_outcome |-> <<>>,     \* per id: what the classifier call for that lead met
     response   |-> None]

Init ==
    /\ offers = <<>>
    /\ leads = <<>>
    /\ api_key \in BOOLEAN
    /\ pc = [r \in Runs |-> "idle"]
    /\ run = [r \in Runs |-> NoRun]
    /\ listing = None
    /\ csv = None
    /\ call = None

\* no scoring request is between its first query and its response
NoRunInProgress == \A r \in Runs : pc[r] # "scoring"

\* ------------------------------------------------------- deduplication

SameIdentity(a, b) == a.company = b.company /\ a.name = b.name

\* the grouping with Min('id') in place of Max('id')
_get_unique_leads_Earliest(rows, scored_only) ==
    LET base == {i \in Ids(rows) : ~scored_only \/ IsSome(rows[i].score)}
    IN  {i \in base : \A j \in base : SameIdentity(rows[i], rows[j]) => i <= j}

\* _get_unique_leads(scored_only): the ids of the rows it returns
_get_unique_leads(rows, scored_only) ==
    LET base == {i \in Ids(rows) : ~scored_only \/ IsSome(rows[i].score)}
    IN  {i \in base : \A j \in base : SameIdentity(rows[i], rows[j]) => j <= i}

\* the candidates without .filter(score__isnull=True)
ScoringCandidates_Unfiltered(rows) == _get_unique_leads(rows, FALSE)

\* the candidates without the grouping by (company, name)
ScoringCandidates_AllUnscored(rows) == {i \in Ids(rows) : IsNone(rows[i].score)}

\* the filter applied before the grouping: the latest unscored row of each
\* (company, name)
ScoringCandidates_FilterFirst(rows) ==
    {i \in Ids(rows) :
        /\ IsNone(rows[i].score)
        /\ \A j \in Ids(rows) :
              (IsNone(rows[j].score) /\ SameIdentity(rows[i], rows[j])) => j <= i}

\* self._get_unique_leads().filter(score__isnull=True)
ScoringCandidates(rows) ==
    {i \in _get_unique_leads(rows, FALSE) : IsNone(rows[i].score)}

\* the code point of a character, as far as ordering goes
Ascii ==
    <<" ", "A", "B", "C", "D", "E", "F", "G", "H", "I", "J", "K", "L", "M", "N",
      "O", "P", "Q", "R", "S", "T", "U", "V", "W", "X", "Y", "Z", "a", "b", "c",
      "d", "e", "f", "g", "h", "i", "j", "k", "l", "m", "n", "o", "p", "q", "r",
      "s", "t", "u", "v", "w", "x", "y", "z", "|">>
Ord(c) == CHOOSE i \in 1..Len(Ascii) : Ascii[i] = c

\* a < b for two strings (binary collation)
RECURSIVE StrLess(_, _)
StrLess(a, b) ==
    IF b = <<>> THEN FALSE
    ELSE IF a = <<>> THEN TRUE
    ELSE IF Head(a) # Head(b) THEN Ord(Head(a)) < Ord(Head(b))
    ELSE StrLess(Tail(a), Tail(b))

\* order_by('score', 'company', 'name'): the lowest score first
ResultsBefore_Ascending(a, b) ==
    \/ Val(a.score) < Val(b.score)
    \/ /\ Val(a.score) = Val(b.score)
       /\ \/ StrLess(a.company, b.company)
          \/ a.company = b.company /\ StrLess(a.name, b.name)

\* order_by('-score', 'company', 'name') over scored rows: a comes before b
ResultsBefore(a, b) ==
    \/ Val(a.score) > Val(b.score)
    \/ /\ Val(a.score) = Val(b.score)
       /\ \/ StrLess(a.company, b.company)
          \/ a.company = b.company /\ StrLess(a.name, b.name)

\* the ids of S in the order of order_by('-score', 'company', 'name'); rows equal
\* on all three keys come in id order
RECURSIVE OrderedIds(_, _)
OrderedIds(rows, S) ==
    IF S = {} THEN <<>>
    ELSE LET first == CHOOSE i \in S : \A j \in S \ {i} :
                          \/ ResultsBefore(rows[i], rows[j])
                          \/ ~ResultsBefore(rows[j], rows[i]) /\ i < j
         IN  <<first>> \o OrderedIds(rows, S \ {first})

\* the rows GET results lists (pagination left out: one page holds them all)
ResultsListing(rows) == OrderedIds(rows, _get_unique_leads(rows, TRUE))

\* ------------------------------------------------------- requests

\* POST /api/leads/upload/ with a .csv file: one Lead.objects.create per line
upload(file) ==
    /\ NoRunInProgress
    /\ Len(leads) + Len(file) <= MaxLeads
    /\ leads' = leads \o [i \in 1..Len(file) |-> NewLead(file[i])]
    /\ listing' = None
    /\ csv' = None
    /\ pc' = [r \in Runs |-> "idle"]
    /\ run' = [r \in Runs |-> NoRun]
    /\ UNCHANGED <<call, offers, api_key>>

\* POST /api/offer/ (OfferViewSet.create)
CreateOffer(o) ==
    /\ NoRunInProgress
    /\ Len(offers) < MaxOffers
    /\ offers' = Append(offers, o)
    /\ listing' = None
    /\ csv' = None
    /\ pc' = [r \in Runs |-> "idle"]
    /\ run' = [r \in Runs |-> NoRun]
    /\ UNCHANGED <<call, leads, api_key>>

\* DELETE /api/offer/<pk>/ (OfferViewSet.destroy)
DestroyOffer(k) ==
    /\ NoRunInProgress
    /\ k \in 1..Len(offers)
    /\ offers' = SubSeq(offers, 1, k - 1) \o SubSeq(offers, k + 1, Len(offers))
    /\ listing' = None
    /\ csv' = None
    /\ pc' = [r \in Runs |-> "idle"]
    /\ run' = [r \in Runs |-> NoRun]
    /\ UNCHANGED <<call, leads, api_key>>

\* GET /api/leads/results/
results ==
    /\ NoRunInProgress
    /\ LET ids == ResultsListing(leads) IN
       listing' = Some([count   |-> Len(ids),
                        results |-> [k \in 1..Len(ids) |->
                                        [id |-> ids[k], row |-> leads[ids[k]]]]])
    /\ csv' = None
    /\ pc' = [r \in Runs |-> "idle"]
    /\ run' = [r \in Runs |-> NoRun]
    /\ UNCHANGED <<call, offers, leads, api_key>>

\* the export restricted to one row per (company, name), as the listing is
ExportedIds_Unique(rows) == _get_unique_leads(rows, TRUE)

\* Lead.objects.filter(score__isnull=False): the ids of the rows
ExportedIds(rows) == {i \in Ids(rows) : IsSome(rows[i].score)}

\* the orders order_by('-score') can return the ids of S in: rows of equal
\* score come in an order the database chooses
ExportOrders(rows, S) ==
    {ord \in [1..Cardinality(S) -> S] :
        /\ \A k, m \in 1..Cardinality(S) : k # m => ord[k] # ord[m]
        /\ \A k, m \in 1..Cardinality(S) :
              k < m => Val(rows[ord[k]].score) >= Val(rows[ord[m]].score)}

\* the list export_csv writes for one lead
CsvLine(lead) ==
    <<lead.name, lead.role, lead.company, lead.industry, lead.location,
      lead.intent, lead.score, lead.reasoning>>

\* GET /api/leads/export_csv/: the header line and one line per scored lead
export_csv ==
    /\ NoRunInProgress
    /\ \E ord \in ExportOrders(leads, ExportedIds(leads)) :
          csv' = Some([header |-> <<"Name", "Role", "Company", "Industry", "Location",
                                    "Intent", "Score", "Reasoning">>,
                       lines  |-> [k \in 1..Len(ord) |->
                                      [id |-> ord[k], cells |-> CsvLine(leads[ord[k]])]]])
    /\ listing' = None
    /\ pc' = [r \in Runs |-> "idle"]
    /\ run' = [r \in Runs |-> NoRun]
    /\ UNCHANGED <<call, offers, leads, api_key>>

\* ------------------------------------------------------- POST /api/leads/score/

\* Offer.objects.first()
FirstOffer(ofs) == IF ofs = <<>> THEN None ELSE Some(Head(ofs))

\* score() without its offer check
OfferMissing_Never(offer) == FALSE

\* if not offer
OfferMissing(offer) == IsNone(offer)

\* score() without its check for an empty candidate set
NoLeads_Never(cands) == FALSE

\* if not leads.exists()
NoLeads(cands) == cands = {}

\* what a request leaves for the next one in its slot
Summary(r) ==
    IF pc[r] = "done"
    THEN Some([persisted |-> run[r].persisted,
               skipped   |-> {i \in DOMAIN run[r].stage :
                                 run[r].stage[i] = "SKIPPED_ON_ERROR"}])
    ELSE None

\* the slot a new request takes: the first one with no request in its loop
FreeSlot == CHOOSE r \in Runs : pc[r] # "scoring" /\ \A q \in 1..(r - 1) : pc[q] = "scoring"

\* the start of score(): the offer check, leads.exists(), and the fetch of the
\* queryset by the for statement
ScoreStartBody(r) ==
    /\ pc[r] # "scoring"
    /\ r = FreeSlot
    /\ listing' = None
    /\ csv' = None
    /\ UNCHANGED <<call, offers, leads, api_key>>
    /\ LET offer == FirstOffer(offers)
           cands == ScoringCandidates(leads)
           start == [NoRun EXCEPT !.offer = offer,
                                  !.before = leads,
                                  !.offers_before = offers,
                                  !.prev = Summary(r)]
       IN  IF OfferMissing(offer)
           THEN /\ pc' = [pc EXCEPT ![r] = "done"]
                /\ run' = [run EXCEPT ![r] =
                       [start EXCEPT
                          !.response = Some([status |-> 400, body |->
                              [error |-> <<"Please create an offer first using POST /api/offer/">>]])]]
           ELSE IF NoLeads(cands)
           THEN /\ pc' = [pc EXCEPT ![r] = "done"]
                /\ run' = [run EXCEPT ![r] =
                       [start EXCEPT
                          !.response = Some([status |-> 200, body |->
                              [message |-> <<"No unscored leads found. Upload leads using POST /api/leads/upload/">>]])]]
           ELSE /\ pc' = [pc EXCEPT ![r] = "scoring"]
                /\ run' = [run EXCEPT ![r] =
                       [start EXCEPT
                          !.queryset = [i \in cands |-> leads[i]],
                          !.todo = cands,
                          !.stage = [i \in cands |-> "PENDING"],
                          !.ai_outcome = [i \in cands |-> NotCalled]]]

\* a scoring request that starts while no other one is running
ScoreStart(r) == NoRunInProgress /\ ScoreStartBody(r)

\* lead_dict of score()
LeadDict(lead) ==
    [role |-> lead.role, industry |-> lead.industry, name |-> lead.name,
     company |-> lead.company, location |-> lead.location,
     linkedin_bio |-> lead.linkedin_bio]

\* offer_dict of score()
OfferDict(offer) ==
    [ideal_use_cases |-> offer.ideal_use_cases, value_props |-> offer.value_props]

\* STEP 1 of the loop body: [raised, score, reasons]; offer.ideal_use_cases of
\* an offer that is None raises AttributeError
RuleStep(lead, offer) ==
    IF IsNone(offer)
    THEN [raised |-> "AttributeError", score |-> 0, reasons |-> <<>>]
    ELSE calculate_rule_score(LeadDict(lead), OfferDict(Val(offer)))

\* which handler of the loop body's try statement takes an exception
Handler(exc) == IF exc = "RateLimitError" THEN "fallback" ELSE "skip"

\* the handler with break in place of continue
SkippedRun_Break(rec, id) ==
    [rec EXCEPT !.stage = [@ EXCEPT ![id] = "SKIPPED_ON_ERROR"],
                !.todo = {},
                !.cur = 0,
                !.loc = NoLocals]

\* except Exception as lead_error: print and continue
SkippedRun(rec, id) ==
    [rec EXCEPT !.stage = [@ EXCEPT ![id] = "SKIPPED_ON_ERROR"],
                !.todo = @ \ {id},
                !.cur = 0,
                !.loc = NoLocals]

\* the for statement takes the next lead; STEP 1, calculate_rule_score
RuleScore(r) ==
    /\ pc[r] = "scoring"
    /\ run[r].cur = 0
    /\ \E id \in run[r].todo :
         \E rs \in {RuleStep(run[r].queryset[id], run[r].offer)} :
         LET rec == [run[r] EXCEPT !.rule_calls = @ + 1]
         IN  IF rs.raised = "none"
             THEN run' = [run EXCEPT ![r] =
                      [rec EXCEPT !.stage = [@ EXCEPT ![id] = "RULE_SCORED"],
                                  !.todo = @ \ {id},
                                  !.cur = id,
                                  !.loc = [NoLocals EXCEPT !.rule_score = rs.score,
                                                           !.rule_reasons = rs.reasons]]]
             ELSE run' = [run EXCEPT ![r] = SkippedRun(rec, id)]
    /\ UNCHANGED <<call, csv, offers, leads, api_key, pc, listing>>

\* the locals after the RateLimitError handler computed its rule-only result
FallbackLocals(loc) ==
    [loc EXCEPT !.final_score = FallbackScore(loc.rule_score),
                !.final_intent = FinalIntent(FallbackScore(loc.rule_score)),
                !.reasoning = FallbackReasoning(loc.rule_reasons)]

\* STEP 2 without the test of settings.OPENAI_API_KEY
AiStep_AlwaysCalls(key, lead, offer, outcome) == _get_ai_intent_score(lead, offer, outcome)

\* STEP 2 with a default of 30 points and Medium when there is no API key
AiStep_DefaultMedium(key, lead, offer, outcome) ==
    IF key
    THEN _get_ai_intent_score(lead, offer, outcome)
    ELSE [raised |-> "none", message |-> <<>>,
          value |-> <<30, Medium, <<"No AI API key configured">> >>]

\* STEP 2 of the loop body: [raised, message, value]
AiStep(key, lead, offer, outcome) ==
    IF key
    THEN _get_ai_intent_score(lead, offer, outcome)
    ELSE [raised |-> "none", message |-> <<>>,
          value |-> <<10, Low, <<"No AI API key configured">> >>]

\* STEP 2: the AI layer, or its fixed result without an API key
Classify(r) ==
    /\ pc[r] = "scoring"
    /\ run[r].cur # 0
    /\ run[r].stage[run[r].cur] = "RULE_SCORED"
    /\ \E outcome \in Outcomes :
         \E ai \in {AiStep(api_key, run[r].queryset[run[r].cur], Val(run[r].offer), outcome)} :
         LET id  == run[r].cur
             called == api_key /\ PromptBuilds(Val(run[r].offer))
             rec == [run[r] EXCEPT
                        !.ai_calls = IF called THEN @ + 1 ELSE @,
                        !.ai_outcome = [@ EXCEPT ![id] =
                            IF called THEN outcome
                            ELSE IF api_key THEN PromptFailed
                            ELSE NotCalled]]
         IN  IF ai.raised = "none"
             THEN run' = [run EXCEPT ![r] =
                      [rec EXCEPT !.stage = [@ EXCEPT ![id] = "CLASSIFIED"],
                                  !.loc = [@ EXCEPT !.ai_score = ai.value[1],
                                                    !.ai_intent = ai.value[2],
                                                    !.ai_reasoning = ai.value[3]]]]
             ELSE IF Handler(ai.raised) = "fallback"
             THEN run' = [run EXCEPT ![r] =
                      [rec EXCEPT !.stage = [@ EXCEPT ![id] = "RATE_LIMITED_FALLBACK"],
                                  !.loc = FallbackLocals(@)]]
             ELSE run' = [run EXCEPT ![r] = SkippedRun(rec, id)]
    /\ UNCHANGED <<call, csv, offers, leads, api_key, pc, listing>>

\* the locals after STEP 3
CombinedLocals(loc) ==
    [loc EXCEPT !.final_score = CombineScores(loc.rule_score, loc.ai_score),
                !.final_intent = FinalIntent(CombineScores(loc.rule_score, loc.ai_score)),
                !.reasoning = CombinedReasoning(loc.rule_reasons, loc.ai_reasoning)]

\* STEP 3: combine the scores, classify the final intent, combine the reasoning
Combine(r) ==
    /\ pc[r] = "scoring"
    /\ run[r].cur # 0
    /\ run[r].stage[run[r].cur] = "CLASSIFIED"
    /\ run' = [run EXCEPT ![r] =
           [@ EXCEPT !.stage = [@ EXCEPT ![run[r].cur] = "COMBINED"],
                     !.loc = CombinedLocals(@)]]
    /\ UNCHANGED <<call, csv, offers, leads, api_key, pc, listing>>

\* the in-memory lead without the assignment to lead.reasoning
SavedRow_NoReasoning(lead, loc) ==
    [lead EXCEPT !.score = Some(loc.final_score),
                 !.intent = Some(loc.final_intent)]

\* the in-memory lead without the assignment to lead.score
SavedRow_NoScore(lead, loc) ==
    [lead EXCEPT !.intent = Some(loc.final_intent),
                 !.reasoning = Some(loc.reasoning)]

\* the in-memory lead after lead.score, lead.intent and lead.reasoning are set;
\* lead.save() writes every column of it
SavedRow(lead, loc) ==
    [lead EXCEPT !.score = Some(loc.final_score),
                 !.intent = Some(loc.final_intent),
                 !.reasoning = Some(loc.reasoning)]

\* the dict appended to results on the normal path
ResultEntry(lead, loc) ==
    [name |-> lead.name, role |-> lead.role, company |-> lead.company,
     intent |-> loc.final_intent, score |-> loc.final_score,
     reasoning |-> loc.reasoning,
     score_breakdown |-> [rule_score |-> loc.rule_score, ai_score |-> loc.ai_score]]

\* the dict appended to results by the RateLimitError handler
FallbackEntry(lead, loc) ==
    [name |-> lead.name, role |-> lead.role, company |-> lead.company,
     intent |-> loc.final_intent, score |-> loc.final_score,
     reasoning |-> loc.reasoning]

\* results = [] placed inside the loop body: the list holds the last entry only
PersistedRun_ResetResults(rec, id, entry) ==
    [rec EXCEPT !.stage = [@ EXCEPT ![id] = "PERSISTED"],
                !.cur = 0,
                !.loc = NoLocals,
                !.persisted = @ \cup {id},
                !.results = <<entry>>]

\* the request after lead.save(), without results.append()
PersistedRun_NoAppend(rec, id, entry) ==
    [rec EXCEPT !.stage = [@ EXCEPT ![id] = "PERSISTED"],
                !.cur = 0,
                !.loc = NoLocals,
                !.persisted = @ \cup {id}]

\* the request after lead.save() and results.append() succeeded
PersistedRun(rec, id, entry) ==
    [rec EXCEPT !.stage = [@ EXCEPT ![id] = "PERSISTED"],
                !.cur = 0,
                !.loc = NoLocals,
                !.persisted = @ \cup {id},
                !.results = Append(@, entry)]

\* the request after an exception left the loop: the outer except of score()
AbortedRun(rec) ==
    [rec EXCEPT !.cur = 0,
                !.loc = NoLocals,
                !.response = Some([status |-> 500, body |->
                    [error |-> <<"Scoring failed: ", "database error">>]])]

\* the write made conditional on the row being still unscored (UPDATE ... WHERE
\* score IS NULL): a lead another request scored meanwhile is passed over
Persist_IfUnscored(r) ==
    /\ pc[r] = "scoring"
    /\ run[r].cur # 0
    /\ run[r].stage[run[r].cur] \in {"COMBINED", "RATE_LIMITED_FALLBACK"}
    /\ LET id       == run[r].cur
           lead     == run[r].queryset[id]
           loc      == run[r].loc
           fallback == run[r].stage[id] = "RATE_LIMITED_FALLBACK"
       IN  \E saved \in BOOLEAN :
             IF saved /\ IsNone(leads[id].score)
             THEN /\ leads' = [leads EXCEPT ![id] = SavedRow(lead, loc)]
                  /\ pc' = pc
                  /\ run' = [run EXCEPT ![r] =
                         PersistedRun(@, id, IF fallback THEN FallbackEntry(lead, loc)
                                                         ELSE ResultEntry(lead, loc))]
             ELSE /\ leads' = leads
                  /\ pc' = pc
                  /\ run' = [run EXCEPT ![r] =
                         SkippedRun([@ EXCEPT !.save_failed =
                                        IF saved THEN @ ELSE @ \cup {id}], id)]
    /\ UNCHANGED <<call, csv, offers, api_key, listing>>

\* lead.save() and results.append(); the database may refuse the write
Persist(r) ==
    /\ pc[r] = "scoring"
    /\ run[r].cur # 0
    /\ run[r].stage[run[r].cur] \in {"COMBINED", "RATE_LIMITED_FALLBACK"}
    /\ LET id       == run[r].cur
           lead     == run[r].queryset[id]
           loc      == run[r].loc
           fallback == run[r].stage[id] = "RATE_LIMITED_FALLBACK"
       IN  \E saved \in BOOLEAN :
             IF saved
             THEN /\ leads' = [leads EXCEPT ![id] = SavedRow(lead, loc)]
                  /\ pc' = pc
                  /\ run' = [run EXCEPT ![r] =
                         PersistedRun(@, id, IF fallback THEN FallbackEntry(lead, loc)
                                                         ELSE ResultEntry(lead, loc))]
             ELSE IF ~fallback
             THEN /\ leads' = leads
                  /\ pc' = pc
                  /\ run' = [run EXCEPT ![r] =
                         SkippedRun([@ EXCEPT !.save_failed = @ \cup {id}], id)]
             ELSE \* raised inside a handler: the loop is left
                  /\ leads' = leads
                  /\ pc' = [pc EXCEPT ![r] = "done"]
                  /\ run' = [run EXCEPT ![r] =
                         AbortedRun([@ EXCEPT !.save_failed = @ \cup {id}])]
    /\ UNCHANGED <<call, csv, offers, api_key, listing>>

\* one iteration of the loop body as a function of its lead alone: the three
\* columns the row holds afterwards and the entries it adds to results, given
\* what the classifier call met and whether lead.save() succeeded
LoopBody(lead, offer, key, outcome, saved) ==
    LET rs   == RuleStep(lead, offer)
        skip == [stored  |-> <<lead.score, lead.intent, lead.reasoning>>,
                 entries |-> {}]
    IN  IF rs.raised # "none" THEN skip
        ELSE LET ai   == AiStep(key, lead, Val(offer), outcome)
                 loc1 == [NoLocals EXCEPT !.rule_score = rs.score,
                                          !.rule_reasons = rs.reasons]
             IN  IF ai.raised = "none"
                 THEN LET loc == CombinedLocals([loc1 EXCEPT
                                     !.ai_score = ai.value[1],
                                     !.ai_intent = ai.value[2],
                                     !.ai_reasoning = ai.value[3]])
                          row == SavedRow(lead, loc)
                      IN  IF saved
                          THEN [stored  |-> <<row.score, row.intent, row.reasoning>>,
                                entries |-> {ResultEntry(lead, loc)}]
                          ELSE skip
                 ELSE IF Handler(ai.raised) = "fallback"
                 THEN LET loc == FallbackLocals(loc1)
                          row == SavedRow(lead, loc)
                      IN  IF saved
                          THEN [stored  |-> <<row.score, row.intent, row.reasoning>>,
                                entries |-> {FallbackEntry(lead, loc)}]
                          ELSE skip
                 ELSE skip

\* 'hybrid (rule + AI)' if settings.OPENAI_API_KEY else 'rule-based only'
ScoringMethod(key) ==
    IF key THEN <<"hybrid (rule + AI)">> ELSE <<"rule-based only">>

\* Response({'results': ..., 'total_scored': ..., 'scoring_method': ...})
Report(res, key) ==
    [status |-> 200, body |->
        [results        |-> res,
         total_scored   |-> Len(res),
         scoring_method |-> ScoringMethod(key)]]

\* the return statement indented into the loop body: the report is returned
\* after the first iteration, or before it
Finish_Early(r) ==
    /\ pc[r] = "scoring"
    /\ run[r].cur = 0
    /\ pc' = [pc EXCEPT ![r] = "done"]
    /\ run' = [run EXCEPT ![r] = [@ EXCEPT !.response = Some(Report(run[r].results, api_key))]]
    /\ UNCHANGED <<call, csv, offers, leads, api_key, listing>>

\* the loop is over: return the report
Finish(r) ==
    /\ pc[r] = "scoring"
    /\ run[r].cur = 0
    /\ run[r].todo = {}
    /\ pc' = [pc EXCEPT ![r] = "done"]
    /\ run' = [run EXCEPT ![r] = [@ EXCEPT !.response = Some(Report(run[r].results, api_key))]]
    /\ UNCHANGED <<call, csv, offers, leads, api_key, listing>>

Next ==
    \/ \E file \in CsvFiles : upload(file)
    \/ \E o \in OfferInputs : CreateOffer(o)
    \/ \E k \in 1..MaxOffers : DestroyOffer(k)
    \/ results
    \/ export_csv
    \/ \E r \in Runs : ScoreStart(r)
    \/ \E r \in Runs : RuleScore(r)
    \/ \E r \in Runs : Classify(r)
    \/ \E r \in Runs : Combine(r)
    \/ \E r \in Runs : Persist(r)
    \/ \E r \in Runs : Finish(r)

Spec == Init /\ [][Next]_vars

\* a step of the loop of a request that is being served
LoopStep ==
    \E r \in Runs : RuleScore(r) \/ Classify(r) \/ Combine(r) \/ Persist(r) \/ Finish(r)

\* the request handler runs on: the loop body has no wait of its own, and the
\* external call returns or raises (the client applies a timeout)
LiveSpec == Spec /\ WF_vars(LoopStep)

\* the largest Lead table two overlapping requests are followed on
MaxConcLeads == 1

\* requests served by several workers, from a database that holds one Offer
\* and some uploaded leads, none scored yet
ConcInit ==
    /\ offers \in {<<o>> : o \in OfferInputs}
    /\ leads \in UNION {{[i \in 1..n |-> NewLead(file[i])] : file \in [1..n -> CsvRows]} :
                          n \in 1..MaxConcLeads}
    /\ api_key \in BOOLEAN
    /\ pc = [r \in Runs |-> "idle"]
    /\ run = [r \in Runs |-> NoRun]
    /\ listing = None
    /\ csv = None
    /\ call = None

\* a scoring request may start while another one is in its loop; each runs its
\* own loop on the rows it fetched, and every lead.save() is one UPDATE of the
\* row from the instance the request holds
ConcNext ==
    \/ \E r \in Runs : ScoreStartBody(r)
    \/ \E r \in Runs : RuleScore(r)
    \/ \E r \in Runs : Classify(r)
    \/ \E r \in Runs : Combine(r)
    \/ \E r \in Runs : Persist(r)
    \/ \E r \in Runs : Finish(r)

ConcSpec == ConcInit /\ [][ConcNext]_vars

\* ------------------------------------------------------- direct calls

MaxUseCases == 2
MaxTail == 3

\* a dict with only the keys of S
Restrict(d, S) == [k \in S |-> d[k]]

\* the role of a lead dict: a decision maker, an influencer, one with a keyword
\* of each set, one with a keyword inside a longer word, none, and the empty one
UnitRoles ==
    { <<"C", "E", "O">>, <<"M", "a", "n", "a", "g", "e", "r">>, <<"S", "e", "n", "i", "o", "r", " ", "V", "P">>, <<"L", "e", "a", "d", "e", "r", "s", "h", "i", "p">>, <<"A", "n", "a", "l", "y", "s", "t">>, <<>> }

\* the industry of a lead dict: the use case in another capitalisation, a text
\* that contains it, a text it contains, an unrelated one, and the empty one
UnitIndustries ==
    { <<"S", "A", "A", "S">>, <<"S", "a", "a", "S", " ", "S", "t", "a", "r", "t", "u", "p">>, <<"S", "a">>, <<"H", "e", "a", "l", "t", "h">>, <<>> }

\* the other four fields: all filled, a bio of blanks, an empty bio
UnitProfiles ==
    { [name |-> Ann, company |-> Acme, location |-> NY, linkedin_bio |-> <<"b", "i", "o">>],
      [name |-> Ann, company |-> Acme, location |-> NY, linkedin_bio |-> <<" ", " ">>],
      [name |-> Ann, company |-> Acme, location |-> NY, linkedin_bio |-> <<>>] }

\* the key sets of a lead dict: all six, and some with keys missing
UnitKeys ==
    { {"name", "role", "company", "industry", "location", "linkedin_bio"},
      {"name", "role", "company", "industry", "linkedin_bio"},
      {"name", "company", "industry", "location", "linkedin_bio"},
      {"name", "role", "company", "location", "linkedin_bio"},
      {"role", "industry"} }

\* the lead dicts calculate_rule_score is called with
UnitLeads ==
    { Restrict([name |-> pr.name, role |-> role, company |-> pr.company,
                industry |-> industry, location |-> pr.location,
                linkedin_bio |-> pr.linkedin_bio], keys) :
        role \in UnitRoles, industry \in UnitIndustries, pr \in UnitProfiles,
        keys \in UnitKeys }

\* the elements of an ideal_use_cases list: three texts, the empty text, and a
\* number
UseCasePool ==
    { JStr(SaaS), JStr(<<"S", "a", "a", "S", " ", "S", "t", "a", "r", "t", "u", "p">>), JStr(<<"H", "e", "a", "l", "t", "h">>), JStr(<<>>), JNum }

\* the offer dicts calculate_rule_score is called with: ideal_use_cases of
\* 0..MaxUseCases elements, or no such key
UnitOffers ==
    { [value_props |-> <<JStr(<<"f", "a", "s", "t">>)>>, ideal_use_cases |-> ucs] :
        ucs \in UNION {[1..n -> UseCasePool] : n \in 0..MaxUseCases} }
    \cup { [value_props |-> <<JStr(<<"f", "a", "s", "t">>)>>] }

\* the labels a response starts with
UnitLabels ==
    { High, Medium, Low, <<"h", "i", "g", "h">>, <<"L", "O", "W">>, <<"M", "a", "y", "b", "e">>, <<>> }

\* the message contents of the external call: blanks or none, a label, and up
\* to MaxTail characters that may hold separators
UnitContents ==
    { pre \o label \o tail :
        pre \in {<<>>, <<" ">>}, label \in UnitLabels,
        tail \in UNION {[1..n -> {"|", " ", "x"}] : n \in 0..MaxTail} }

\* a Lead instance _get_ai_intent_score is called with
UnitLead == NewLead(CsvRow(Ann, <<"C", "E", "O">>, Acme, SaaS, NY, <<"b", "i", "o">>))

\* a call not yet made: the function, its arguments, what the external call
\* will do (for _get_ai_intent_score), and no result
UnitCalls ==
    { [fn |-> "calculate_rule_score", lead |-> l, offer |-> o,
       outcome |-> NotCalled, ret |-> None] : l \in UnitLeads, o \in UnitOffers }
    \cup
    { [fn |-> "_get_ai_intent_score", lead |-> UnitLead, offer |-> o,
       outcome |-> out, ret |-> None] :
        o \in OfferInputs,
        out \in {Responded(c) : c \in UnitContents} \cup {RateLimited, ConnectionFailed} }

UnitInit ==
    /\ offers = <<>>
    /\ leads = <<>>
    /\ api_key = TRUE
    /\ pc = [r \in Runs |-> "idle"]
    /\ run = [r \in Runs |-> NoRun]
    /\ listing = None
    /\ csv = None
    /\ call \in UnitCalls

\* score, reasons = calculate_rule_score(lead, offer)
ApplyRuleScore ==
    /\ call.fn = "calculate_rule_score"
    /\ IsNone(call.ret)
    /\ call' = [call EXCEPT !.ret = Some(calculate_rule_score(call.lead, call.offer))]
    /\ UNCHANGED <<offers, leads, api_key, pc, run, listing, csv>>

\* ai_score, ai_intent, ai_reasoning = self._get_ai_intent_score(lead, offer)
ApplyClassify ==
    /\ call.fn = "_get_ai_intent_score"
    /\ IsNone(call.ret)
    /\ call' = [call EXCEPT !.ret =
                   Some(_get_ai_intent_score(call.lead, call.offer, call.outcome))]
    /\ UNCHANGED <<offers, leads, api_key, pc, run, listing, csv>>

UnitNext == ApplyRuleScore \/ ApplyClassify

UnitSpec == UnitInit /\ [][UnitNext]_vars

\* ------------------------------------------------------- properties

\* the three columns a scoring run writes
Scoring(row) == <<row.score, row.intent, row.reasoning>>

\* the scoring requests whose locals are on record
Started == {r \in Runs : pc[r] # "idle"}
Finished == {r \in Runs : pc[r] = "done"}

\* the candidates of request r
Candidates(r) == DOMAIN run[r].queryset

\* the rule score of candidate id of request r, recomputed from the fetched row
RuleScoreOf(r, id) == RuleStep(run[r].queryset[id], run[r].offer).score

\* the id of the candidate of request r that a results entry names
EntryIds(r, e) ==
    {id \in run[r].persisted : /\ run[r].queryset[id].name = e.name
                               /\ run[r].queryset[id].company = e.company}

\* C1: a scoring run neither selects nor writes a lead whose score was set when
\* the run started; the score, intent and reasoning of such a lead are the same
\* during and after the run as before it.
C1_NoRescoring ==
    \A r \in Started :
        \A id \in Ids(run[r].before) :
            IsSome(run[r].before[id].score) =>
                /\ id \notin Candidates(r)
                /\ id \notin run[r].persisted
                /\ Scoring(leads[id]) = Scoring(run[r].before[id])

\* C1 witness: a finished run that persisted a lead while another lead was
\* already scored when it started.
C1_Witness ==
    \E r \in Finished :
        /\ run[r].persisted # {}
        /\ \E id \in Ids(run[r].before) : IsSome(run[r].before[id].score)

\* C2 (as claimed): a lead whose classifier call raised RateLimitError and that
\* was persisted holds min(rule_score * 2, 100), the intent of that score by the
\* 70/40 thresholds, and a reasoning that starts with the rule-only flag.
C2_RateLimitFallback ==
    \A r \in Started :
        \A id \in run[r].persisted :
            run[r].ai_outcome[id].kind = "RateLimitError" =>
                /\ leads[id].score = Some(Min(RuleScoreOf(r, id) * 2, 100))
                /\ leads[id].intent = Some(FinalIntent(Min(RuleScoreOf(r, id) * 2, 100)))
                /\ IsSome(leads[id].reasoning)
                /\ Head(Val(leads[id].reasoning)) = "[Rule-based only - AI rate limited] "

\* C3: every results entry of the normal path carries a rule_score in 0..50 and
\* an ai_score in 0..50, its score is min(rule_score + ai_score, 100) and lies in
\* 0..100, that score is the one stored for its lead, and the rule_score is the
\* one calculate_rule_score gives for that lead.
C3_Combination ==
    \A r \in Started :
        \A k \in 1..Len(run[r].results) :
            LET e == run[r].results[k] IN
            "score_breakdown" \in DOMAIN e =>
                /\ e.score_breakdown.rule_score \in 0..50
                /\ e.score_breakdown.ai_score \in 0..50
                /\ e.score = Min(e.score_breakdown.rule_score
                                   + e.score_breakdown.ai_score, 100)
                /\ e.score \in 0..100
                /\ Cardinality(EntryIds(r, e)) = 1
                /\ \A id \in EntryIds(r, e) :
                       /\ leads[id].score = Some(e.score)
                       /\ e.score_breakdown.rule_score = RuleScoreOf(r, id)

\* C3 witness: a finished run reports a normal-path entry whose two layers both
\* contributed their maximum.
C3_Witness ==
    \E r \in Finished :
        \E k \in 1..Len(run[r].results) :
            /\ "score_breakdown" \in DOMAIN run[r].results[k]
            /\ run[r].results[k].score_breakdown = [rule_score |-> 50, ai_score |-> 50]
            /\ run[r].results[k].score = 100

Listed == Range(ResultsListing(leads))

\* C5 (as claimed): of two leads with the same (company, name), neither the
\* scoring-candidate selection nor the results listing ever surfaces the earlier.
C5_OnlyLaterSurfaces ==
    \A i, j \in Ids(leads) :
        (i < j /\ SameIdentity(leads[i], leads[j])) =>
            /\ i \notin ScoringCandidates(leads)
            /\ i \notin Listed

\* C5 (amended): of two leads with the same (company, name) the candidate
\* selection never surfaces the earlier one; the results listing never surfaces
\* both, surfaces the earlier one only while the later one is unscored, and
\* surfaces the later one when it is the last scored row of that identity.  The
\* queryset a request fetched and the listing a response carried obey it too.
C5_Dedup ==
    /\ \A i, j \in Ids(leads) :
          (i < j /\ SameIdentity(leads[i], leads[j])) =>
              /\ i \notin ScoringCandidates(leads)
              /\ ~(i \in Listed /\ j \in Listed)
              /\ i \in Listed => IsNone(leads[j].score)
              /\ (/\ IsSome(leads[j].score)
                  /\ \A k \in Ids(leads) :
                        (k > j /\ SameIdentity(leads[j], leads[k])) => IsNone(leads[k].score))
                 => j \in Listed
    /\ \A r \in Started :
          \A i, j \in Ids(run[r].before) :
              (i < j /\ SameIdentity(run[r].before[i], run[r].before[j])) =>
                  i \notin Candidates(r)
    /\ IsSome(listing) =>
          /\ Val(listing).count = Len(ResultsListing(leads))
          /\ \A k \in 1..Val(listing).count :
                /\ Val(listing).results[k].id = ResultsListing(leads)[k]
                /\ Val(listing).results[k].row = leads[ResultsListing(leads)[k]]

\* C5 witness: a results response lists the earlier of two rows of one identity
\* (the earlier one is scored, the later one is not yet).
C5_Witness ==
    /\ IsSome(listing)
    /\ \E k \in 1..Val(listing).count :
          \E j \in Ids(leads) :
              /\ Val(listing).results[k].id < j
              /\ SameIdentity(leads[Val(listing).results[k].id], leads[j])

\* C6: a scoring request that found no Offer ends with status 400 and an error
\* field, fetched no lead, changed no lead, and called neither the rule scorer
\* nor the classifier.
C6_NoOffer ==
    \A r \in Started :
        run[r].offers_before = <<>> =>
            /\ pc[r] = "done"
            /\ IsSome(run[r].response)
            /\ Val(run[r].response).status = 400
            /\ DOMAIN Val(run[r].response).body = {"error"}
            /\ Candidates(r) = {}
            /\ leads = run[r].before
            /\ run[r].persisted = {}
            /\ run[r].rule_calls = 0
            /\ run[r].ai_calls = 0

\* C6 witness: a request ended for lack of an Offer while an unscored lead waited.
C6_Witness ==
    \E r \in Finished :
        /\ run[r].offers_before = <<>>
        /\ ScoringCandidates(leads) # {}

\* candidate id of request r met an error of its own: its rule scoring raised,
\* or its lead.save() raised
FailedIn(r, id) ==
    \/ RuleStep(run[r].queryset[id], run[r].offer).raised # "none"
    \/ id \in run[r].save_failed

\* C7: a candidate whose processing raised stays unscored; once the request is
\* done every candidate that met an error is skipped and unscored, every other
\* candidate is persisted, and the response is the normal report.
C7_FailureIsolation ==
    \A r \in Started :
        /\ \A id \in Candidates(r) :
              run[r].stage[id] = "SKIPPED_ON_ERROR" => IsNone(leads[id].score)
        /\ (pc[r] = "done" /\ Candidates(r) # {}) =>
              /\ Val(run[r].response).status = 200
              /\ "results" \in DOMAIN Val(run[r].response).body
              /\ \A id \in Candidates(r) :
                    IF FailedIn(r, id)
                    THEN /\ run[r].stage[id] = "SKIPPED_ON_ERROR"
                         /\ IsNone(leads[id].score)
                    ELSE /\ run[r].stage[id] = "PERSISTED"
                         /\ IsSome(leads[id].score)

\* C7 witness: a finished request skipped one candidate whose save raised and
\* persisted another.
C7_Witness ==
    \E r \in Finished :
        /\ run[r].save_failed # {}
        /\ run[r].persisted # {}

\* the leads whose score request r set
ScoredBy(r) ==
    {id \in Ids(run[r].before) : IsNone(run[r].before[id].score) /\ IsSome(leads[id].score)}

\* results entry e reports what is stored for lead id
Reports(e, id) ==
    /\ e.name = leads[id].name
    /\ e.company = leads[id].company
    /\ e.role = leads[id].role
    /\ Some(e.score) = leads[id].score
    /\ Some(e.intent) = leads[id].intent
    /\ Some(e.reasoning) = leads[id].reasoning

\* C8: the results of a report are exactly the leads whose score the request
\* persisted, one entry each and none for a skipped lead; total_scored is their
\* number; a request that had an Offer and a candidate answers with results,
\* total_scored and scoring_method.
C8_ReportMatchesPersisted ==
    \A r \in Finished :
        LET body == Val(run[r].response).body IN
        /\ (run[r].offers_before # <<>> /\ ScoringCandidates(run[r].before) # {}) =>
              /\ Val(run[r].response).status = 200
              /\ DOMAIN body = {"results", "total_scored", "scoring_method"}
        /\ "results" \in DOMAIN body =>
              /\ body.total_scored = Len(body.results)
              /\ Len(body.results) = Cardinality(ScoredBy(r))
              /\ \A id \in ScoredBy(r) :
                    \E k \in 1..Len(body.results) : Reports(body.results[k], id)
              /\ \A k \in 1..Len(body.results) :
                    \E id \in ScoredBy(r) : Reports(body.results[k], id)
              /\ \A id \in Candidates(r) :
                    run[r].stage[id] = "SKIPPED_ON_ERROR" =>
                        \A k \in 1..Len(body.results) :
                            ~(/\ body.results[k].name = leads[id].name
                              /\ body.results[k].company = leads[id].company)

\* C8 witness: every candidate of a finished request was skipped and its report
\* carries an empty results list and total_scored 0.
C8_Witness ==
    \E r \in Finished :
        /\ Candidates(r) # {}
        /\ \A id \in Candidates(r) : run[r].stage[id] = "SKIPPED_ON_ERROR"
        /\ Val(run[r].response).body.results = <<>>
        /\ Val(run[r].response).body.total_scored = 0

\* the number of scored leads a response reports; the "no unscored leads"
\* message and an error report none
ReportedTotal(resp) ==
    IF "total_scored" \in DOMAIN resp.body THEN resp.body.total_scored ELSE 0

\* C9 (as claimed): a scoring request that directly follows another one reports
\* no scored lead and leaves the scores the first one persisted unchanged.
C9_SecondRunScoresNothing ==
    \A r \in Finished :
        IsSome(run[r].prev) =>
            /\ ReportedTotal(Val(run[r].response)) = 0
            /\ \A id \in Val(run[r].prev).persisted :
                  Scoring(leads[id]) = Scoring(run[r].before[id])

\* C9 (amended): a scoring request that directly follows another one leaves the
\* scores the first one persisted unchanged; if the first one skipped none of
\* its candidates, the second one finds no candidate, persists nothing and
\* reports no scored lead (its response carries no results list).
C9_Idempotent ==
    \A r \in Started :
        IsSome(run[r].prev) =>
            /\ \A id \in Val(run[r].prev).persisted :
                  /\ IsSome(leads[id].score)
                  /\ Scoring(leads[id]) = Scoring(run[r].before[id])
            /\ Val(run[r].prev).skipped = {} =>
                  /\ pc[r] = "done"
                  /\ Candidates(r) = {}
                  /\ run[r].persisted = {}
                  /\ ReportedTotal(Val(run[r].response)) = 0
                  /\ "results" \notin DOMAIN Val(run[r].response).body

\* C9 witness: a request finished directly after one that persisted a lead and
\* skipped none.
C9_Witness ==
    \E r \in Finished :
        /\ IsSome(run[r].prev)
        /\ Val(run[r].prev).persisted # {}
        /\ Val(run[r].prev).skipped = {}

\* a step of scoring request r
ScoreStep(r) ==
    \/ ScoreStart(r)
    \/ RuleScore(r)
    \/ Classify(r)
    \/ Combine(r)
    \/ Persist(r)
    \/ Finish(r)

\* row id has a later row with the same (company, name)
NonCanonical(rows, id) ==
    \E j \in Ids(rows) : j > id /\ SameIdentity(rows[id], rows[j])

\* what a step leaves alone: the number of lead rows, every Offer, every field
\* of a non-canonical lead, the six profile fields of every lead, and every lead
\* but a candidate the step persists
FrameKept ==
    /\ Len(leads') = Len(leads)
    /\ offers' = offers
    /\ \A id \in Ids(leads) :
          /\ NonCanonical(leads, id) => leads'[id] = leads[id]
          /\ LeadDict(leads'[id]) = LeadDict(leads[id])
          /\ leads'[id] # leads[id] =>
                \E r \in Runs : /\ id \in Candidates(r)
                                /\ id \notin run[r].persisted
                                /\ id \in run'[r].persisted

\* C10: no step of a scoring request and no results listing creates or deletes
\* a lead row, changes an Offer, changes a non-canonical lead, changes a profile
\* field, or changes a lead other than a candidate the step persists.
C10_Frame == [][((\E r \in Runs : ScoreStep(r)) \/ results) => FrameKept]_vars

\* C10 witness: a request persisted the later of two rows of one identity while
\* the earlier one, unscored, was left as it was.
C10_Witness ==
    \E r \in Finished :
        \E i, j \in Ids(leads) :
            /\ i < j
            /\ SameIdentity(leads[i], leads[j])
            /\ j \in run[r].persisted
            /\ IsNone(leads[i].score)
            /\ leads[i] = run[r].before[i]

\* the classifier call for candidate id of request r failed other than by quota:
\* the prompt could not be built, the transport failed, or the response has no
\* separator to parse
ClassifierFailed(r, id) ==
    \/ run[r].ai_outcome[id].kind \in {"TypeError", "APIConnectionError"}
    \/ /\ run[r].ai_outcome[id].kind = "response"
       /\ ~Contains(<<"|">>, run[r].ai_outcome[id].content)

\* C11: a candidate whose classifier call failed other than by quota goes on
\* with ai_score 10 and label Low; it is never handled as rate limited, is
\* skipped only if its own save raised, and otherwise is persisted with
\* rule_score + 10; the request does not end in an error response.
C11_ClassifierNeverAborts ==
    \A r \in Started :
        \A id \in Candidates(r) :
            ClassifierFailed(r, id) =>
                /\ run[r].stage[id] \in {"CLASSIFIED", "COMBINED", "PERSISTED",
                                         "SKIPPED_ON_ERROR"}
                /\ run[r].stage[id] = "SKIPPED_ON_ERROR" => id \in run[r].save_failed
                /\ run[r].stage[id] \in {"CLASSIFIED", "COMBINED"} =>
                       /\ run[r].cur = id
                       /\ run[r].loc.ai_score = 10
                       /\ run[r].loc.ai_intent = Low
                /\ run[r].stage[id] = "PERSISTED" =>
                       /\ id \in run[r].persisted
                       /\ leads[id].score = Some(RuleScoreOf(r, id) + 10)
                       /\ \E k \in 1..Len(run[r].results) :
                              /\ id \in EntryIds(r, run[r].results[k])
                              /\ run[r].results[k].score_breakdown.ai_score = 10
                /\ pc[r] = "done" => Val(run[r].response).status = 200

\* C11 witness: a finished request persisted one lead whose classifier call met
\* a connection error and one whose response had no separator.
C11_Witness ==
    \E r \in Finished :
        \E i, j \in run[r].persisted :
            /\ run[r].ai_outcome[i].kind = "APIConnectionError"
            /\ run[r].ai_outcome[j].kind = "response"
            /\ ClassifierFailed(r, j)
            /\ leads[i].score = Some(RuleScoreOf(r, i) + 10)

\* a direct call of _get_ai_intent_score returned, and its external call had
\* answered with a message content
Answered ==
    /\ call.fn = "_get_ai_intent_score"
    /\ IsSome(call.ret)
    /\ PromptBuilds(call.offer)
    /\ call.outcome.kind = "response"

\* the positions of '|' in a text
Bars(text) == {i \in 1..Len(text) : text[i] = "|"}

\* the position of the first '|' of a text that has one
FirstBar(text) == CHOOSE i \in Bars(text) : \A j \in Bars(text) : i <= j

C13_FormatErrorTriple ==
    (Answered /\ Bars(call.outcome.content) = {}) =>
        Val(call.ret).value = <<10, Low, <<"response format error">> >>

\* C13 (amended): a response without '|' yields (10, "Low", "AI response format
\* error"), whatever else it holds, and nothing is raised.
C13_FormatError ==
    (Answered /\ Bars(call.outcome.content) = {}) =>
        /\ Val(call.ret).raised = "none"
        /\ Val(call.ret).value = <<10, Low, <<"AI response format error">> >>

\* C13 witness: a response that starts with the label High and has no '|' came
\* back as the fixed triple.
C13_Witness ==
    /\ Answered
    /\ Bars(call.outcome.content) = {}
    /\ Len(call.outcome.content) > 4
    /\ SubSeq(call.outcome.content, 1, 4) = High
    /\ Val(call.ret).value[2] = Low

\* the scoring_method of the report of request r is m, if r ended with a report
MethodIs(r, m) ==
    (pc[r] = "done" /\ "scoring_method" \in DOMAIN Val(run[r].response).body) =>
        Val(run[r].response).body.scoring_method = m

\* the classifier result of the candidate request r is working on is `triple`,
\* once that candidate passed the classification step
TripleIs(r, triple) ==
    (run[r].cur # 0 /\ run[r].stage[run[r].cur] \in {"CLASSIFIED", "COMBINED"}) =>
        <<run[r].loc.ai_score, run[r].loc.ai_intent, run[r].loc.ai_reasoning>> = triple

\* C14 (as claimed): without credentials no external call is made, the
\* classifier result is (10, "Low", "no classifier configured") and the report
\* says "rule-based only"; with credentials the report says "hybrid".
C14_NoCredentials ==
    \A r \in Started :
        IF api_key
        THEN MethodIs(r, <<"hybrid">>)
        ELSE /\ run[r].ai_calls = 0
             /\ TripleIs(r, <<10, Low, <<"no classifier configured">> >>)
             /\ MethodIs(r, <<"rule-based only">>)

\* C14 (amended): without credentials no external call is made; a candidate
\* whose rule scoring returned gets (10, "Low", "No AI API key configured"), is
\* never handled as rate limited, is combined as min(rule_score + 10, 100) and,
\* unless its save raises, persisted with that score; the report says
\* "rule-based only".  With credentials the report says "hybrid (rule + AI)".
C14_RuleOnlyMode ==
    \A r \in Started :
        IF api_key
        THEN MethodIs(r, <<"hybrid (rule + AI)">>)
        ELSE /\ run[r].ai_calls = 0
             /\ TripleIs(r, <<10, Low, <<"No AI API key configured">> >>)
             /\ MethodIs(r, <<"rule-based only">>)
             /\ \A id \in Candidates(r) :
                   /\ run[r].ai_outcome[id] = NotCalled
                   /\ run[r].stage[id] # "RATE_LIMITED_FALLBACK"
                   /\ run[r].stage[id] = "SKIPPED_ON_ERROR" => FailedIn(r, id)
                   /\ (run[r].stage[id] = "COMBINED" /\ run[r].cur = id) =>
                          run[r].loc.final_score = Min(RuleScoreOf(r, id) + 10, 100)
                   /\ run[r].stage[id] = "PERSISTED" =>
                          /\ leads[id].score = Some(Min(RuleScoreOf(r, id) + 10, 100))
                          /\ leads[id].reasoning = Some(CombinedReasoning(
                                 RuleStep(run[r].queryset[id], run[r].offer).reasons,
                                 <<"No AI API key configured">>))
             /\ pc[r] = "done" =>
                   \A id \in Candidates(r) :
                       ~FailedIn(r, id) => run[r].stage[id] = "PERSISTED"

\* C14 witness: a request without credentials finished, persisted a lead with
\* rule_score + 10 and reported "rule-based only".
C14_Witness ==
    \E r \in Finished :
        /\ ~api_key
        /\ \E id \in run[r].persisted : leads[id].score = Some(60)
        /\ Val(run[r].response).body.scoring_method = <<"rule-based only">>

\* a direct call of calculate_rule_score returned a result
RuleReturned ==
    /\ call.fn = "calculate_rule_score"
    /\ IsSome(call.ret)
    /\ Val(call.ret).raised = "none"

\* the reasons, each with its criterion and the points it names
ReasonTable ==
    { [reason |-> <<"Decision maker role (+20)">>, criterion |-> 1, points |-> 20],
      [reason |-> <<"Influencer role (+10)">>, criterion |-> 1, points |-> 10],
      [reason |-> <<"Exact ICP match (+20)">>, criterion |-> 2, points |-> 20],
      [reason |-> <<"Adjacent industry (+10)">>, criterion |-> 2, points |-> 10],
      [reason |-> <<"Complete profile (+10)">>, criterion |-> 3, points |-> 10] }

ReasonEntry(reason) == CHOOSE e \in ReasonTable : e.reason = reason

\* the points named in a list of reasons, added up
RECURSIVE NamedPoints(_)
NamedPoints(reasons) ==
    IF reasons = <<>> THEN 0
    ELSE ReasonEntry(Head(reasons)).points + NamedPoints(Tail(reasons))

\* the points a result gives for one criterion, read from its reasons
Award(ret, criterion) ==
    NamedPoints(SelectSeq(ret.reasons, LAMBDA x : ReasonEntry(x).criterion = criterion))

\* the lead dict of the call has all six keys, each with a non-blank character
FullProfile(lead) ==
    \A f \in {"name", "role", "company", "industry", "location", "linkedin_bio"} :
        /\ f \in DOMAIN lead
        /\ \E i \in 1..Len(lead[f]) : lead[f][i] \notin {" ", "\t", "\n", "\r"}

\* the strings of the ideal_use_cases of an offer dict, lowercased
UseCasesOf(offer) ==
    IF "ideal_use_cases" \in DOMAIN offer
    THEN {Lower(offer.ideal_use_cases[i].v) :
             i \in {j \in 1..Len(offer.ideal_use_cases) :
                       offer.ideal_use_cases[j].t = "string"}}
    ELSE {}

\* the field of a lead dict, lowercased; the empty text if the key is missing
LowerField(lead, f) == IF f \in DOMAIN lead THEN Lower(lead[f]) ELSE <<>>

\* C15: a returned result lists known reasons, at most one per criterion, in
\* the order role, industry, completeness; its score is the sum of the points
\* its reasons name and lies in {0, 10, 20, 30, 40, 50}; a CEO of the exact
\* industry with a full profile gets 50 and the three reasons, an analyst of an
\* unrelated industry with a full profile gets 10 and the completeness reason.
C15_RuleScoreShape ==
    RuleReturned =>
        LET ret == Val(call.ret) IN
        /\ \A i \in 1..Len(ret.reasons) : \E e \in ReasonTable : e.reason = ret.reasons[i]
        /\ \A i, j \in 1..Len(ret.reasons) :
              i < j => ReasonEntry(ret.reasons[i]).criterion
                          < ReasonEntry(ret.reasons[j]).criterion
        /\ ret.score = NamedPoints(ret.reasons)
        /\ ret.score \in {0, 10, 20, 30, 40, 50}
        /\ (/\ FullProfile(call.lead)
            /\ call.lead.role = <<"C", "E", "O">>
            /\ call.lead.industry = <<"S", "A", "A", "S">>
            /\ UseCasesOf(call.offer) = {Lower(SaaS)}) =>
               /\ ret.score = 50
               /\ ret.reasons = << <<"Decision maker role (+20)">>,
                                   <<"Exact ICP match (+20)">>,
                                   <<"Complete profile (+10)">> >>
        /\ (/\ FullProfile(call.lead)
            /\ call.lead.role = <<"A", "n", "a", "l", "y", "s", "t">>
            /\ call.lead.industry = <<"H", "e", "a", "l", "t", "h">>
            /\ UseCasesOf(call.offer) = {Lower(SaaS)}) =>
               /\ ret.score = 10
               /\ ret.reasons = << <<"Complete profile (+10)">> >>

\* C15 witness: a call returned 50 with three reasons.
C15_Witness ==
    /\ RuleReturned
    /\ Val(call.ret).score = 50
    /\ Len(Val(call.ret).reasons) = 3

\* C16: the role award of a returned result is 20 if the lowercased role has a
\* decision-maker keyword inside, else 10 if it has an influencer keyword
\* inside, else 0 with no role reason; never both reasons.  "Senior VP" gets 20,
\* "Leadership" gets 10 for the "lead" inside it, a missing role gets 0.
C16_RoleRelevance ==
    RuleReturned =>
        LET ret  == Val(call.ret)
            role == LowerField(call.lead, "role")
            dm   == \E k \in Range(decision_makers) : Contains(k, role)
            inf  == \E k \in Range(influencers) : Contains(k, role)
        IN  /\ Award(ret, 1) = IF dm THEN 20 ELSE IF inf THEN 10 ELSE 0
            /\ ~(/\ <<"Decision maker role (+20)">> \in Range(ret.reasons)
                 /\ <<"Influencer role (+10)">> \in Range(ret.reasons))
            /\ ("role" \notin DOMAIN call.lead) => Award(ret, 1) = 0
            /\ ("role" \in DOMAIN call.lead) =>
                  /\ call.lead.role = <<"S", "e", "n", "i", "o", "r", " ", "V", "P">> => Award(ret, 1) = 20
                  /\ call.lead.role = <<"L", "e", "a", "d", "e", "r", "s", "h", "i", "p">> => Award(ret, 1) = 10
                  /\ call.lead.role = <<"M", "a", "n", "a", "g", "e", "r">> => Award(ret, 1) = 10
                  /\ call.lead.role \in {<<"A", "n", "a", "l", "y", "s", "t">>, <<>>} => Award(ret, 1) = 0

\* C16 witness: a call for a role with a keyword of each set returned the
\* decision-maker award alone.
C16_Witness ==
    /\ RuleReturned
    /\ "role" \in DOMAIN call.lead
    /\ call.lead.role = <<"S", "e", "n", "i", "o", "r", " ", "V", "P">>
    /\ Award(Val(call.ret), 1) = 20

\* C17: the industry award of a returned result is 20 if the lowercased
\* industry equals a lowercased use case, else 10 if one of the two contains
\* the other for some use case, else 0 with no industry reason; a CEO whose
\* industry only contains a use case scores at least 30.
C17_IndustryMatch ==
    RuleReturned =>
        LET ret      == Val(call.ret)
            industry == LowerField(call.lead, "industry")
            exact    == \E uc \in UseCasesOf(call.offer) : uc = industry
            adjacent == \E uc \in UseCasesOf(call.offer) :
                            Contains(uc, industry) \/ Contains(industry, uc)
        IN  /\ Award(ret, 2) = IF exact THEN 20 ELSE IF adjacent THEN 10 ELSE 0
            /\ (/\ "role" \in DOMAIN call.lead
                /\ call.lead.role = <<"C", "E", "O">>
                /\ "industry" \in DOMAIN call.lead
                /\ call.lead.industry = <<"S", "a", "a", "S", " ", "S", "t", "a", "r", "t", "u", "p">>
                /\ UseCasesOf(call.offer) = {Lower(SaaS)}) =>
                   /\ Award(ret, 2) = 10
                   /\ ret.score >= 30

\* C17 witness: a call returned the exact award for an industry that equals the
\* second use case and is contained in the first.
C17_Witness ==
    /\ RuleReturned
    /\ "industry" \in DOMAIN call.lead
    /\ call.lead.industry = <<"S", "A", "A", "S">>
    /\ "ideal_use_cases" \in DOMAIN call.offer
    /\ call.offer.ideal_use_cases = <<JStr(<<"S", "a", "a", "S", " ", "S", "t", "a", "r", "t", "u", "p">>), JStr(SaaS)>>
    /\ Award(Val(call.ret), 2) = 20

\* C18: a returned result has the completeness award exactly when the lead
\* dict has all six keys, each non-empty after stripping; a call whose offer
\* holds only strings returns whatever keys the lead dict lacks; a Manager of
\* the exact industry with no other key gets 30 and two reasons.
C18_Completeness ==
    /\ RuleReturned =>
          /\ Award(Val(call.ret), 3) = IF FullProfile(call.lead) THEN 10 ELSE 0
          /\ (/\ DOMAIN call.lead = {"role", "industry"}
              /\ call.lead.role = <<"M", "a", "n", "a", "g", "e", "r">>
              /\ call.lead.industry = <<"S", "A", "A", "S">>
              /\ UseCasesOf(call.offer) = {Lower(SaaS)}) =>
                 /\ Val(call.ret).score = 30
                 /\ Len(Val(call.ret).reasons) = 2
    /\ (/\ call.fn = "calculate_rule_score"
        /\ IsSome(call.ret)
        /\ ("ideal_use_cases" \in DOMAIN call.offer) =>
              \A i \in 1..Len(call.offer.ideal_use_cases) :
                  call.offer.ideal_use_cases[i].t = "string") =>
           Val(call.ret).raised = "none"

\* C18 witness: a call for a lead dict that has only role and industry returned
\* 30 with two reasons.
C18_Witness ==
    /\ RuleReturned
    /\ DOMAIN call.lead = {"role", "industry"}
    /\ Val(call.ret).score = 30
    /\ Len(Val(call.ret).reasons) = 2

\* C19: a results response lists only rows whose score is set, no two of one
\* (company, name), each the latest-created scored row of its identity, one
\* for every identity that has a scored row whether or not a later unscored
\* duplicate exists, in descending order of score.
C19_ResultsListing ==
    IsSome(listing) =>
        LET res == Val(listing).results IN
        /\ Val(listing).count = Len(res)
        /\ \A k \in 1..Len(res) :
              /\ res[k].id \in Ids(leads)
              /\ res[k].row = leads[res[k].id]
              /\ IsSome(res[k].row.score)
              /\ \A j \in Ids(leads) :
                    (j > res[k].id /\ SameIdentity(leads[j], res[k].row)) =>
                        IsNone(leads[j].score)
        /\ \A k, m \in 1..Len(res) :
              k < m => /\ ~SameIdentity(res[k].row, res[m].row)
                       /\ Val(res[k].row.score) >= Val(res[m].row.score)
        /\ \A j \in Ids(leads) :
              IsSome(leads[j].score) =>
                  \E k \in 1..Len(res) : SameIdentity(res[k].row, leads[j])

\* C19 witness: a results response lists the later-created of two scored rows
\* before the earlier-created one, its score being the higher.
C19_Witness ==
    /\ IsSome(listing)
    /\ Val(listing).count = 2
    /\ Val(listing).results[1].id > Val(listing).results[2].id
    /\ Val(Val(listing).results[1].row.score) > Val(Val(listing).results[2].row.score)

\* C20: a scoring request that found an Offer and no unscored canonical lead
\* calls neither the rule scorer nor the classifier, fetches and changes no
\* lead, and ends with status 200 and a message, not an error.
C20_NoWork ==
    \A r \in Started :
        (run[r].offers_before # <<>> /\ ScoringCandidates(run[r].before) = {}) =>
            /\ run[r].rule_calls = 0
            /\ run[r].ai_calls = 0
            /\ Candidates(r) = {}
            /\ run[r].persisted = {}
            /\ leads = run[r].before
            /\ pc[r] = "done" =>
                   /\ Val(run[r].response).status = 200
                   /\ DOMAIN Val(run[r].response).body = {"message"}

\* C20 witness: a request ended without work while the table held leads, all
\* of them scored or superseded by a scored row.
C20_Witness ==
    \E r \in Finished :
        /\ run[r].offers_before # <<>>
        /\ run[r].before # <<>>
        /\ ScoringCandidates(run[r].before) = {}
        /\ \E id \in Ids(run[r].before) : IsNone(run[r].before[id].score)

\* C21: an export response has exactly one line for every lead whose score is
\* set, also when several scored rows share one (company, name), and none for
\* an unscored lead; a line carries the eight columns of its lead; the lines are
\* in descending order of score; every row of the results listing has a line.
C21_Export ==
    IsSome(csv) =>
        LET lines == Val(csv).lines IN
        /\ Val(csv).header = <<"Name", "Role", "Company", "Industry", "Location",
                               "Intent", "Score", "Reasoning">>
        /\ \A id \in Ids(leads) :
              Cardinality({k \in 1..Len(lines) : lines[k].id = id})
                  = IF IsSome(leads[id].score) THEN 1 ELSE 0
        /\ \A k \in 1..Len(lines) :
              /\ lines[k].id \in Ids(leads)
              /\ lines[k].cells =
                     <<leads[lines[k].id].name, leads[lines[k].id].role,
                       leads[lines[k].id].company, leads[lines[k].id].industry,
                       leads[lines[k].id].location, leads[lines[k].id].intent,
                       leads[lines[k].id].score, leads[lines[k].id].reasoning>>
        /\ \A k, m \in 1..Len(lines) :
              k < m => Val(lines[k].cells[7]) >= Val(lines[m].cells[7])
        /\ \A id \in Listed : \E k \in 1..Len(lines) : lines[k].id = id

\* C21 witness: an export holds the lines of two scored rows of one (company,
\* name), of which the results listing shows one.
C21_Witness ==
    /\ IsSome(csv)
    /\ Len(Val(csv).lines) = 2
    /\ SameIdentity(leads[Val(csv).lines[1].id], leads[Val(csv).lines[2].id])
    /\ Cardinality(Listed) = 1

\* the moves of a candidate the pipeline allows
AllowedMoves ==
    { <<"PENDING", "RULE_SCORED">>, <<"RULE_SCORED", "CLASSIFIED">>,
      <<"CLASSIFIED", "COMBINED">>, <<"COMBINED", "PERSISTED">>,
      <<"RULE_SCORED", "RATE_LIMITED_FALLBACK">>,
      <<"RATE_LIMITED_FALLBACK", "PERSISTED">> }
    \cup { <<from, "SKIPPED_ON_ERROR">> :
              from \in {"PENDING", "RULE_SCORED", "CLASSIFIED", "COMBINED",
                        "RATE_LIMITED_FALLBACK"} }

\* every candidate of request r is PERSISTED or SKIPPED_ON_ERROR
AllTerminal(r) ==
    \A id \in Candidates(r) : run[r].stage[id] \in {"PERSISTED", "SKIPPED_ON_ERROR"}

\* a step taken while request r is in its loop keeps its candidates and moves
\* each of them not at all or by an allowed move; a candidate becomes PERSISTED
\* in the step that writes its score
MovesAllowed(r) ==
    pc[r] = "scoring" =>
        /\ DOMAIN run'[r].stage = Candidates(r)
        /\ \A id \in Candidates(r) :
              /\ \/ run'[r].stage[id] = run[r].stage[id]
                 \/ <<run[r].stage[id], run'[r].stage[id]>> \in AllowedMoves
              /\ (run'[r].stage[id] = "PERSISTED" /\ run[r].stage[id] # "PERSISTED") =>
                     /\ IsNone(leads[id].score)
                     /\ leads'[id].score = Some(run[r].loc.final_score)

\* C22: during a request every candidate moves only along PENDING,
\* RULE_SCORED, CLASSIFIED, COMBINED, PERSISTED, or PENDING, RULE_SCORED,
\* RATE_LIMITED_FALLBACK, PERSISTED, or into SKIPPED_ON_ERROR; PERSISTED and
\* SKIPPED_ON_ERROR are left by no move; a request that had candidates has
\* answered only when each of them is in one of these two states; and a request
\* in its loop eventually answers.
C22_Lifecycle ==
    /\ [][\A r \in Runs : MovesAllowed(r)]_vars
    /\ [](\A r \in Runs : pc[r] = "done" => AllTerminal(r))
    /\ \A r \in Runs : (pc[r] = "scoring") ~> (pc[r] = "done" /\ AllTerminal(r))

\* C22 witness: a request in its loop has persisted one candidate and combined
\* the scores of another that it has not saved yet.
C22_Witness ==
    \E r \in Runs :
        /\ pc[r] = "scoring"
        /\ \E i, j \in Candidates(r) :
              /\ run[r].stage[i] = "PERSISTED"
              /\ run[r].stage[j] = "COMBINED"

\* row id of rows has the largest creation order among all rows, scored or
\* not, with its (company, name)
LatestOfIdentity(rows, id) ==
    \A j \in Ids(rows) : SameIdentity(rows[id], rows[j]) => j <= id

\* the requests that got as far as selecting their candidates
Selected == {r \in Started : IsSome(run[r].offer)}

\* C23: the candidates of a request are exactly the rows that were, when it
\* started, the latest of their (company, name) among all rows and unscored;
\* and no step sets the score of an unscored row that has a later duplicate,
\* whether or not that duplicate is scored.
C23_CandidateSet ==
    /\ [](\A r \in Selected :
            Candidates(r) = {id \in Ids(run[r].before) :
                                /\ LatestOfIdentity(run[r].before, id)
                                /\ IsNone(run[r].before[id].score)})
    /\ [][\A id \in Ids(leads) :
            (NonCanonical(leads, id) /\ IsNone(leads[id].score)) =>
                /\ id \in Ids(leads')
                /\ NonCanonical(leads', id)
                /\ IsNone(leads'[id].score)]_vars

\* C23 witness: a request that started when the later of two rows of one
\* identity was already scored and the earlier was not has answered with no
\* candidates, and the earlier row is still unscored.
C23_Witness ==
    \E r \in Selected \cap Finished :
        \E i, j \in Ids(run[r].before) :
            /\ i < j
            /\ SameIdentity(run[r].before[i], run[r].before[j])
            /\ IsSome(run[r].before[j].score)
            /\ IsNone(run[r].before[i].score)
            /\ Candidates(r) = {}
            /\ leads = run[r].before

\* what the loop body gives for candidate id of request r, whenever the loop
\* reaches it
OutcomeOf(r, id) ==
    LoopBody(run[r].queryset[id], run[r].offer, api_key, run[r].ai_outcome[id],
             id \notin run[r].save_failed)

\* C24: when a request returns its report, the score, intent and reasoning of
\* each of its candidates and the set of entries of the report are those the
\* loop body gives for each lead on its own, from the lead, the offer, what its
\* classifier call met and whether its save succeeded: nothing of it depends on
\* the order the for loop took, with or without failed candidates.
C24_OrderIndependence ==
    [][\A r \in Runs :
          (/\ pc[r] = "scoring"
           /\ pc'[r] = "done"
           /\ "results" \in DOMAIN Val(run'[r].response).body) =>
              /\ \A id \in Candidates(r) : Scoring(leads'[id]) = OutcomeOf(r, id).stored
              /\ Range(Val(run'[r].response).body.results)
                    = UNION {OutcomeOf(r, id).entries : id \in Candidates(r)}]_vars

\* C24 witness: a finished request took its two candidates in the order
\* opposite to their ids and persisted both.
C24_Witness ==
    \E r \in Finished :
        /\ Candidates(r) = {1, 2}
        /\ Len(run[r].results) = 2
        /\ run[r].results[1].name = run[r].queryset[2].name
        /\ run[r].results[2].name = run[r].queryset[1].name
        /\ run[r].queryset[1].name # run[r].queryset[2].name

\* results entry e carries the identity and the three scoring columns of row
ReportsRow(e, row) ==
    /\ e.name = row.name
    /\ e.company = row.company
    /\ <<Some(e.score), Some(e.intent), Some(e.reasoning)>> = Scoring(row)

\* request r writes lead id in this step
Saves(r, id) == id \notin run[r].persisted /\ id \in run'[r].persisted

\* the results of request r hold an entry with the values stored for lead id
ListedBy(r, id) == \E k \in 1..Len(run[r].results) : Reports(run[r].results[k], id)

\* the results of request r hold an entry for lead id, whatever its values
NamedBy(r, id) ==
    \E k \in 1..Len(run[r].results) :
        /\ run[r].results[k].name = leads[id].name
        /\ run[r].results[k].company = leads[id].company

\* C25: with overlapping scoring requests, a save writes the saving request's
\* own score, intent and reasoning over whatever the row holds, set or not, and
\* adds the lead to that request's results; a lead that two requests both
\* fetched as a candidate, and that failed in neither, is persisted by both and
\* named in the results of both once both are done, the row holding the values
\* one of them reports; and a request neither fetches nor writes a lead whose
\* score was set when it selected its candidates.
C25_Overlap ==
    /\ [][\A r \in Runs : \A id \in Candidates(r) :
            Saves(r, id) =>
                /\ Scoring(leads'[id]) = <<Some(run[r].loc.final_score),
                                           Some(run[r].loc.final_intent),
                                           Some(run[r].loc.reasoning)>>
                /\ Len(run'[r].results) = Len(run[r].results) + 1
                /\ ReportsRow(run'[r].results[Len(run'[r].results)], leads'[id])]_vars
    /\ [](\A r1, r2 \in Finished : \A id \in Candidates(r1) \cap Candidates(r2) :
            (r1 # r2 /\ ~FailedIn(r1, id) /\ ~FailedIn(r2, id)) =>
                /\ id \in run[r1].persisted \cap run[r2].persisted
                /\ NamedBy(r1, id) /\ NamedBy(r2, id)
                /\ ListedBy(r1, id) \/ ListedBy(r2, id))
    /\ [](\A r \in Started : \A id \in Ids(run[r].before) :
            IsSome(run[r].before[id].score) =>
                id \notin Candidates(r) /\ id \notin run[r].persisted)

\* C25 witness: two requests fetched the same lead, both persisted it and both
\* report it, with different scores; the row holds the score of the second
\* request's report, not that of the first.
C25_Witness ==
    \E id \in Ids(leads) :
        /\ pc = [r \in Runs |-> "done"]
        /\ \A r \in Runs : id \in run[r].persisted /\ Len(run[r].results) = 1
        /\ run[1].results[1].score # run[2].results[1].score
        /\ leads[id].score = Some(run[2].results[1].score)

\* the three scoring columns of row are all NULL
AllUnset(row) == Scoring(row) = <<None, None, None>>

\* the three scoring columns of row all hold a value
AllSet(row) == IsSome(row.score) /\ IsSome(row.intent) /\ IsSome(row.reasoning)

RuleBasedOnly(r) ==
    /\ pc[r] = "done"
    /\ "scoring_method" \in DOMAIN Val(run[r].response).body
    /\ Val(run[r].response).body.scoring_method = <<"rule-based only">>

\* C27: without an API key every score a request persists is the rule score of
\* that lead plus 10 and at most 60, and its intent is not High; every entry of
\* a report that says "rule-based only" has ai_score 10, a score of rule_score
\* + 10 that is at most 60, and an intent other than High; and only a request
\* without an API key reports "rule-based only".
C27_RuleOnlyCeiling ==
    \A r \in Started :
        /\ ~api_key =>
              \A id \in run[r].persisted :
                  /\ leads[id].score = Some(RuleScoreOf(r, id) + 10)
                  /\ Val(leads[id].score) <= 60
                  /\ leads[id].intent # Some(High)
        /\ RuleBasedOnly(r) =>
              /\ ~api_key
              /\ \A k \in 1..Len(Val(run[r].response).body.results) :
                    LET e == Val(run[r].response).body.results[k] IN
                    /\ e.score_breakdown.ai_score = 10
                    /\ e.score = e.score_breakdown.rule_score + 10
                    /\ e.score <= 60
                    /\ e.intent \in {Medium, Low}

\* C27 witness: a report that says "rule-based only" carries a lead with the
\* full rule score of 50: its score is 60 and its intent Medium.
C27_Witness ==
    \E r \in Finished :
        /\ RuleBasedOnly(r)
        /\ \E k \in 1..Len(run[r].results) :
              /\ run[r].results[k].score_breakdown = [rule_score |-> 50, ai_score |-> 10]
              /\ run[r].results[k].score = 60
              /\ run[r].results[k].intent = Medium

EmptyIndustryReturned ==
    /\ RuleReturned
    /\ "industry" \in DOMAIN call.lead
    /\ call.lead.industry = <<>>

\* the ideal_use_cases list of an offer dict, empty if the key is missing
UseCaseList(offer) == Get(offer, "ideal_use_cases", <<>>)

\* C29 (as claimed): a returned result for a lead with an empty industry has
\* the award "Adjacent industry (+10)" whenever some ideal use case of the
\* offer is a non-empty string, and has no industry points only when the offer
\* has no ideal use cases.
C29_EmptyIndustryAdjacent ==
    EmptyIndustryReturned =>
        LET ret == Val(call.ret) IN
        /\ (\E uc \in UseCasesOf(call.offer) : uc # <<>>) =>
               /\ Award(ret, 2) = 10
               /\ \E i \in 1..Len(ret.reasons) :
                      ret.reasons[i] = <<"Adjacent industry (+10)">>
        /\ Award(ret, 2) = 0 => UseCaseList(call.offer) = <<>>

\* C29 (amended): a returned result for a lead with an empty industry has the
\* award "Exact ICP match (+20)" when one of the ideal use cases is the empty
\* string, the award "Adjacent industry (+10)" when the offer has at least one
\* ideal use case and none of them is the empty string, and no industry points
\* exactly when the offer has no ideal use cases.
C29_EmptyIndustry ==
    EmptyIndustryReturned =>
        LET ret == Val(call.ret) IN
        /\ <<>> \in UseCasesOf(call.offer) =>
               /\ Award(ret, 2) = 20
               /\ \E i \in 1..Len(ret.reasons) :
                      ret.reasons[i] = <<"Exact ICP match (+20)">>
        /\ (UseCaseList(call.offer) # <<>> /\ <<>> \notin UseCasesOf(call.offer)) =>
               /\ Award(ret, 2) = 10
               /\ \E i \in 1..Len(ret.reasons) :
                      ret.reasons[i] = <<"Adjacent industry (+10)">>
        /\ Award(ret, 2) = 0 <=> UseCaseList(call.offer) = <<>>

\* C29 witness: a call for a lead with an empty industry and an offer whose use
\* cases are an unrelated text and the empty text returned the exact award.
C29_Witness ==
    /\ EmptyIndustryReturned
    /\ UseCaseList(call.offer) = <<JStr(<<"H", "e", "a", "l", "t", "h">>), JStr(<<>>)>>
    /\ Award(Val(call.ret), 2) = 20
====
